---------------------------- MODULE Spec2Model ----------------------------
(***************************************************************************)
(* go-scoundrel: the game state machine of the two programs of the         *)
(* repository, src/main.go (the first version: a monster is fought as soon *)
(* as it is selected) and src/unnamed/part_000 (the fight-choice version:  *)
(* selecting a monster opens a barehanded/weapon decision).                *)
(*                                                                         *)
(* The Go methods mutate a *model in place.  Each method is an operator    *)
(* from a record of the model's fields to the record after the call, so    *)
(* that nested calls (selectCard -> usePotion -> dealRoom) compose as in   *)
(* the code.  Go slices are 0-based: selectedCard and the index of         *)
(* selectCard keep the Go numbering, room[i + 1] is Go's m.room[i].        *)
(***************************************************************************)
EXTENDS Integers, Sequences, FiniteSets, TLC

VARIABLES
    program,            \* which of the two programs runs: "main.go" or "part_000"
    health,
    dungeon,
    room,
    equippedWeapon,
    discardPile,
    selectedCard,
    cardsChosen,
    weaponLimit,
    choosingFight,
    fightingBarehanded,
    avoidedLastRoom,
    potionUsedThisTurn,
    panicked,           \* a slice expression went out of range: the program has ended
    steps               \* number of key presses that changed the model so far

vars == <<program, health, dungeon, room, equippedWeapon, discardPile,
          selectedCard, cardsChosen, weaponLimit, choosingFight,
          fightingBarehanded, avoidedLastRoom, potionUsedThisTurn, panicked,
          steps>>

\* Bound on the number of state-changing key presses of one run.
MaxSteps == 7

\* Number of the shuffles below that a session may start from.
NumShuffles == 4

-----------------------------------------------------------------------------
(* Cards and the deck *)

MaxHealth == 20
StartWeaponLimit == 14
RoomSize == 4
CardsPerRoom == 3

\* Card{Suit, Value, Type}; MonsterValue is 0 in a composite literal.
MkCard(suit, value, type) ==
    [Suit |-> suit, Value |-> value, Type |-> type, MonsterValue |-> 0]

\* Card{}: the zero value, meaning "no weapon equipped".
NoCard == [Suit |-> "", Value |-> 0, Type |-> "", MonsterValue |-> 0]

\* createDeck: Clubs 2..14, Spades 2..14, Diamonds 2..10, Hearts 2..10.
createDeck ==
    [i \in 1..13 |-> MkCard("Club", i + 1, "Monster")]
    \o [i \in 1..13 |-> MkCard("Spade", i + 1, "Monster")]
    \o [i \in 1..9 |-> MkCard("Diamond", i + 1, "Weapon")]
    \o [i \in 1..9 |-> MkCard("Heart", i + 1, "Potion")]

Club(v) == MkCard("Club", v, "Monster")
Spade(v) == MkCard("Spade", v, "Monster")
Diamond(v) == MkCard("Diamond", v, "Weapon")
Heart(v) == MkCard("Heart", v, "Potion")

SeqRange(s) == {s[i] : i \in 1..Len(s)}

InSeq(c, s) == c \in SeqRange(s)

RECURSIVE Without(_, _)
\* the cards of deck that are not in top, in deck order
Without(deck, top) ==
    IF deck = <<>> THEN <<>>
    ELSE IF InSeq(Head(deck), top) THEN Without(Tail(deck), top)
    ELSE <<Head(deck)>> \o Without(Tail(deck), top)

\* rand.Shuffle yields some permutation of the deck: the ones considered put
\* the listed cards on top and leave the others in createDeck order.
ShuffleTops ==
    << <<Spade(10), Diamond(5), Heart(8), Club(2), Heart(4), Spade(3)>>,
       <<Heart(5), Club(14), Diamond(3), Heart(7), Club(6), Diamond(2)>>,
       <<Spade(14), Club(13), Spade(12), Diamond(2), Heart(9), Club(11)>>,
       <<Club(4), Heart(2), Club(5), Heart(3), Diamond(4), Spade(9)>>,
       <<Diamond(9), Club(12), Heart(10), Spade(8), Spade(13), Heart(6)>> >>

Shuffle(k) == ShuffleTops[k] \o Without(createDeck, ShuffleTops[k])

Shuffles == {Shuffle(k) : k \in 1..(IF NumShuffles < Len(ShuffleTops)
                                     THEN NumShuffles ELSE Len(ShuffleTops))}


-----------------------------------------------------------------------------
(* The model value *)

\* the current *model as a record of its fields
M ==
    [program |-> program, health |-> health, dungeon |-> dungeon,
     room |-> room, equippedWeapon |-> equippedWeapon,
     discardPile |-> discardPile, selectedCard |-> selectedCard,
     cardsChosen |-> cardsChosen, weaponLimit |-> weaponLimit,
     choosingFight |-> choosingFight,
     fightingBarehanded |-> fightingBarehanded,
     avoidedLastRoom |-> avoidedLastRoom,
     potionUsedThisTurn |-> potionUsedThisTurn, panicked |-> panicked]

\* append(s[:i], s[i+1:]...) for 0 <= i < len(s)
RemoveAt(s, i) == SubSeq(s, 1, i) \o SubSeq(s, i + 2, Len(s))

\* s[i+1:] panics ("slice bounds out of range") when i + 1 > len(s)
RemovePanics(s, i) == i < 0 \/ i + 1 > Len(s)

RECURSIVE DealLoop(_, _)
\* the for loop of dealRoom: pop the front of the dungeon into the room
\* until the room holds 4 cards or the dungeon is empty
DealLoop(r, d) ==
    IF Len(r) < RoomSize /\ Len(d) > 0
    THEN DealLoop(Append(r, Head(d)), Tail(d))
    ELSE [room |-> r, dungeon |-> d]

-----------------------------------------------------------------------------
(* src/unnamed/part_000: the fight-choice version *)

\* faulty variant of dealRoom: potionUsedThisTurn is not reset
dealRoom_KeepsPotionFlag(m) ==
    LET dealt == DealLoop(m.room, m.dungeon)
    IN [m EXCEPT !.avoidedLastRoom = FALSE,
                 !.room = dealt.room,
                 !.dungeon = dealt.dungeon,
                 !.cardsChosen = 0,
                 !.selectedCard = -1]

dealRoom(m) ==
    LET dealt == DealLoop(m.room, m.dungeon)
    IN [m EXCEPT !.avoidedLastRoom = FALSE,
                 !.potionUsedThisTurn = FALSE,
                 !.room = dealt.room,
                 !.dungeon = dealt.dungeon,
                 !.cardsChosen = 0,
                 !.selectedCard = -1]

discard(m, card) == [m EXCEPT !.discardPile = Append(@, card)]

\* faulty variant of equipWeapon: a new weapon restores the ceiling
equipWeapon_RestoresCeiling(m, card) ==
    LET m1 == IF m.equippedWeapon # NoCard
              THEN discard(m, m.equippedWeapon) ELSE m
    IN [m1 EXCEPT !.equippedWeapon = [card EXCEPT !.MonsterValue = 0],
                  !.weaponLimit = StartWeaponLimit]

equipWeapon(m, card) ==
    LET m1 == IF m.equippedWeapon # NoCard
              THEN discard(m, m.equippedWeapon) ELSE m
    IN [m1 EXCEPT !.equippedWeapon = [card EXCEPT !.MonsterValue = 0]]

\* faulty variant of ClampHealth: the clamp at 20 is missing
ClampHealth_NoClamp(h) == h

\* min(20, h): "if m.health > 20 { m.health = 20 }"
ClampHealth(h) == IF h > MaxHealth THEN MaxHealth ELSE h

\* faulty variant of usePotion: every potion heals, the turn's flag is not read
usePotion_EveryPotionHeals(m, card) ==
    LET index == m.selectedCard
        m1 == [m EXCEPT !.health = ClampHealth(m.health + card.Value)]
        m2 == [discard(m1, card) EXCEPT !.potionUsedThisTurn = TRUE]
        m3 == [m2 EXCEPT !.room = RemoveAt(@, index)]
    IN IF RoomSize - Len(m3.room) = CardsPerRoom THEN dealRoom(m3) ELSE m3

\* usePotion names an `index` it does not declare; it is read as the index
\* selectCard has just stored in m.selectedCard (the only index in scope of
\* the call), so the potion's own slot is the one removed here.
usePotion(m, card) ==
    IF ~m.potionUsedThisTurn
    THEN LET index == m.selectedCard
             m1 == [m EXCEPT !.health = ClampHealth(m.health + card.Value)]
             m2 == [discard(m1, card) EXCEPT !.potionUsedThisTurn = TRUE]
         IN IF RemovePanics(m2.room, index)
            THEN [m2 EXCEPT !.panicked = TRUE]
            ELSE LET m3 == [m2 EXCEPT !.room = RemoveAt(@, index)]
                 IN IF RoomSize - Len(m3.room) = CardsPerRoom
                    THEN dealRoom(m3) ELSE m3
    ELSE discard(m, card)

fightMonster(m, card) == [m EXCEPT !.choosingFight = TRUE]

\* faulty variant of FightDamage: the weapon is used whatever the ceiling
FightDamage_NoCeiling(m, card) ==
    IF m.fightingBarehanded THEN card.Value
    ELSE IF m.equippedWeapon = NoCard THEN card.Value
    ELSE IF card.Value - m.equippedWeapon.Value > 0
         THEN card.Value - m.equippedWeapon.Value
         ELSE 0

\* the damage finishFight takes from health for the card it fights
FightDamage(m, card) ==
    IF m.fightingBarehanded THEN card.Value
    ELSE IF m.equippedWeapon = NoCard THEN card.Value
    ELSE IF card.Value > m.weaponLimit THEN card.Value
    ELSE IF card.Value - m.equippedWeapon.Value > 0
         THEN card.Value - m.equippedWeapon.Value
         ELSE 0

\* faulty variant of WeaponUsed: the kill is recorded whatever the ceiling
WeaponUsed_NoCeiling(m, card) ==
    /\ ~m.fightingBarehanded
    /\ m.equippedWeapon # NoCard

\* the condition under which finishFight records the kill on the weapon
WeaponUsed(m, card) ==
    /\ ~m.fightingBarehanded
    /\ m.equippedWeapon # NoCard
    /\ card.Value <= m.weaponLimit

finishFight(m) ==
    IF m.selectedCard < 0 \/ m.selectedCard >= Len(m.room)
    THEN [m EXCEPT !.choosingFight = FALSE]
    ELSE LET card == m.room[m.selectedCard + 1]
             m1 == [m EXCEPT !.health = @ - FightDamage(m, card)]
             m2 == IF WeaponUsed(m1, card)
                   THEN [m1 EXCEPT !.weaponLimit = card.Value,
                                   !.equippedWeapon.MonsterValue = card.Value]
                   ELSE m1
             m3 == discard(m2, card)
             m4 == [m3 EXCEPT !.room = RemoveAt(@, m.selectedCard),
                              !.selectedCard = -1,
                              !.choosingFight = FALSE]
         IN IF RoomSize - Len(m4.room) = CardsPerRoom
            THEN dealRoom(m4) ELSE m4

\* the removal selectCard makes after equipWeapon or usePotion returned
RemoveSelected(m, index) ==
    IF m.panicked THEN m
    ELSE IF RemovePanics(m.room, index) THEN [m EXCEPT !.panicked = TRUE]
    ELSE [m EXCEPT !.room = RemoveAt(@, index)]

\* faulty variant of selectCard: a rejected selection clears selectedCard,
\* as the selectCard of main.go does
selectCard_ClearsSelection(m, index) ==
    IF index >= 0 /\ index < Len(m.room) /\ m.cardsChosen < CardsPerRoom
    THEN LET card == m.room[index + 1]
             m1 == [m EXCEPT !.selectedCard = index, !.cardsChosen = @ + 1]
         IN CASE card.Type = "Weapon" ->
                   RemoveSelected(equipWeapon(m1, card), index)
              [] card.Type = "Potion" ->
                   RemoveSelected(usePotion(m1, card), index)
              [] card.Type = "Monster" ->
                   [fightMonster(m1, card) EXCEPT !.selectedCard = index,
                                                  !.choosingFight = TRUE]
              [] OTHER -> m1
    ELSE [m EXCEPT !.selectedCard = -1]

selectCard(m, index) ==
    IF index >= 0 /\ index < Len(m.room) /\ m.cardsChosen < CardsPerRoom
    THEN LET card == m.room[index + 1]
             m1 == [m EXCEPT !.selectedCard = index, !.cardsChosen = @ + 1]
         IN CASE card.Type = "Weapon" ->
                   RemoveSelected(equipWeapon(m1, card), index)
              [] card.Type = "Potion" ->
                   RemoveSelected(usePotion(m1, card), index)
              [] card.Type = "Monster" ->
                   [fightMonster(m1, card) EXCEPT !.selectedCard = index,
                                                  !.choosingFight = TRUE]
              [] OTHER -> m1
    ELSE m

\* faulty variant of avoidRoom: the room goes on top of the dungeon
avoidRoom_RoomOnTop(m) ==
    IF ~m.avoidedLastRoom
    THEN [dealRoom([m EXCEPT !.dungeon = m.room \o @, !.room = <<>>])
             EXCEPT !.avoidedLastRoom = TRUE]
    ELSE m

\* faulty variant of avoidRoom: the room is avoided whatever avoidedLastRoom says
avoidRoom_NoGuard(m) ==
    [dealRoom([m EXCEPT !.dungeon = @ \o m.room, !.room = <<>>])
        EXCEPT !.avoidedLastRoom = TRUE]

\* case "a" of Update
avoidRoom(m) ==
    IF ~m.avoidedLastRoom
    THEN [dealRoom([m EXCEPT !.dungeon = @ \o m.room, !.room = <<>>])
             EXCEPT !.avoidedLastRoom = TRUE]
    ELSE m

\* cases "b" and "w" of Update
chooseFight(m, barehanded) ==
    IF m.choosingFight
    THEN finishFight([m EXCEPT !.fightingBarehanded = barehanded])
    ELSE m

\* Update for every key but "r" (which draws a new shuffle), "t" and ctrl+c
Update(m, key) ==
    CASE key = "a" -> avoidRoom(m)
      [] key = "d" -> dealRoom(m)
      [] key = "1" -> selectCard(m, 0)
      [] key = "2" -> selectCard(m, 1)
      [] key = "3" -> selectCard(m, 2)
      [] key = "4" -> selectCard(m, 3)
      [] key = "b" -> chooseFight(m, TRUE)
      [] key = "w" -> chooseFight(m, FALSE)
      [] OTHER -> m

RECURSIVE MonsterValues(_)
\* the loop of calculateScore over m.dungeon: the Values of its Monster cards
MonsterValues(d) ==
    IF d = <<>> THEN 0
    ELSE (IF Head(d).Type = "Monster" THEN Head(d).Value ELSE 0)
         + MonsterValues(Tail(d))

\* faulty variant of calculateScore: the potion bonus is given at any health
calculateScore_BonusAtAnyHealth(m) ==
    IF m.health <= 0 THEN m.health - MonsterValues(m.dungeon)
    ELSE IF /\ Len(m.discardPile) > 0
            /\ m.discardPile[Len(m.discardPile)].Type = "Potion"
         THEN m.health + m.discardPile[Len(m.discardPile)].Value
         ELSE m.health

calculateScore(m) ==
    IF m.health <= 0 THEN m.health - MonsterValues(m.dungeon)
    ELSE IF /\ m.health = MaxHealth
            /\ Len(m.discardPile) > 0
            /\ m.discardPile[Len(m.discardPile)].Type = "Potion"
         THEN m.health + m.discardPile[Len(m.discardPile)].Value
         ELSE m.health

-----------------------------------------------------------------------------
(* src/main.go: the first version *)

dealRoomMain(m) ==
    LET dealt == DealLoop(<<>>, m.dungeon)
    IN [m EXCEPT !.room = dealt.room,
                 !.dungeon = dealt.dungeon,
                 !.cardsChosen = 0,
                 !.selectedCard = -1]

equipWeaponMain(m, card) ==
    LET m1 == IF m.equippedWeapon # NoCard
              THEN discard(m, m.equippedWeapon) ELSE m
    IN [m1 EXCEPT !.equippedWeapon = card]

usePotionMain(m, card) ==
    discard([m EXCEPT !.health = ClampHealth(m.health + card.Value)], card)

fightMonsterMain(m, card) ==
    LET damage == card.Value - m.equippedWeapon.Value
        m1 == IF m.equippedWeapon = NoCard
              THEN [m EXCEPT !.health = @ - card.Value]
              ELSE [m EXCEPT !.health = IF damage > 0 THEN @ - damage ELSE @,
                             !.weaponLimit = card.Value]
    IN discard(m1, card)

selectCardMain(m, index) ==
    IF index >= 0 /\ index < Len(m.room) /\ m.cardsChosen < CardsPerRoom
    THEN LET card == m.room[index + 1]
             m1 == [m EXCEPT !.selectedCard = index, !.cardsChosen = @ + 1]
             m2 == CASE card.Type = "Weapon" -> equipWeaponMain(m1, card)
                     [] card.Type = "Potion" -> usePotionMain(m1, card)
                     [] card.Type = "Monster" -> fightMonsterMain(m1, card)
                     [] OTHER -> m1
             m3 == [m2 EXCEPT !.room = RemoveAt(@, index)]
         IN IF m3.cardsChosen = CardsPerRoom
            THEN dealRoomMain(IF Len(m3.room) > 0
                              THEN [discard(m3, m3.room[1]) EXCEPT !.room = <<>>]
                              ELSE m3)
            ELSE m3
    ELSE [m EXCEPT !.selectedCard = -1]

\* Update of main.go for every key but "r" and ctrl+c
UpdateMain(m, key) ==
    CASE key = "d" -> dealRoomMain(m)
      [] key = "1" -> selectCardMain(m, 0)
      [] key = "2" -> selectCardMain(m, 1)
      [] key = "3" -> selectCardMain(m, 2)
      [] key = "4" -> selectCardMain(m, 3)
      [] OTHER -> m

-----------------------------------------------------------------------------
(* Sessions and key presses *)

\* the model literal of initialModel, before the first dealRoom
FreshModel(prog, deck) ==
    [program |-> prog, health |-> MaxHealth, dungeon |-> deck,
     room |-> <<>>, equippedWeapon |-> NoCard, discardPile |-> <<>>,
     selectedCard |-> -1, cardsChosen |-> 0,
     weaponLimit |-> StartWeaponLimit, choosingFight |-> FALSE,
     fightingBarehanded |-> FALSE, avoidedLastRoom |-> FALSE,
     potionUsedThisTurn |-> FALSE, panicked |-> FALSE]

\* initialModel, for the deck rand.Shuffle left
initialModel(prog, deck) ==
    IF prog = "main.go" THEN dealRoomMain(FreshModel(prog, deck))
    ELSE dealRoom(FreshModel(prog, deck))

\* tea hands the key to the Update of the program that runs
Dispatch(m, key) ==
    IF m.program = "main.go" THEN UpdateMain(m, key) ELSE Update(m, key)

\* the model after the handler returned; a panic ends the program
Commit(m) ==
    /\ ~panicked
    /\ steps < MaxSteps
    /\ program' = m.program
    /\ health' = m.health
    /\ dungeon' = m.dungeon
    /\ room' = m.room
    /\ equippedWeapon' = m.equippedWeapon
    /\ discardPile' = m.discardPile
    /\ selectedCard' = m.selectedCard
    /\ cardsChosen' = m.cardsChosen
    /\ weaponLimit' = m.weaponLimit
    /\ choosingFight' = m.choosingFight
    /\ fightingBarehanded' = m.fightingBarehanded
    /\ avoidedLastRoom' = m.avoidedLastRoom
    /\ potionUsedThisTurn' = m.potionUsedThisTurn
    /\ panicked' = m.panicked
    /\ steps' = IF m = M THEN steps ELSE steps + 1

SelectKeys == <<"1", "2", "3", "4">>

\* keys "1".."4": SelectCard(index), index 0..3
SelectCard(index) == Commit(Dispatch(M, SelectKeys[index + 1]))

\* keys "b" and "w"
ChooseFightStyle(barehanded) ==
    Commit(Dispatch(M, IF barehanded THEN "b" ELSE "w"))

\* key "a"
AvoidRoom == Commit(Dispatch(M, "a"))

\* key "d"
RedealRoom == Commit(Dispatch(M, "d"))

\* key "r": a new session once health <= 0, nothing before
Restart ==
    \E deck \in Shuffles :
        Commit(IF health <= 0 THEN initialModel(program, deck) ELSE M)

\* the program starts with the model m
Start(m) ==
    /\ program = m.program
    /\ health = m.health
    /\ dungeon = m.dungeon
    /\ room = m.room
    /\ equippedWeapon = m.equippedWeapon
    /\ discardPile = m.discardPile
    /\ selectedCard = m.selectedCard
    /\ cardsChosen = m.cardsChosen
    /\ weaponLimit = m.weaponLimit
    /\ choosingFight = m.choosingFight
    /\ fightingBarehanded = m.fightingBarehanded
    /\ avoidedLastRoom = m.avoidedLastRoom
    /\ potionUsedThisTurn = m.potionUsedThisTurn
    /\ panicked = m.panicked
    /\ steps = 0

InitOf(prog) == \E deck \in Shuffles : Start(initialModel(prog, deck))

Init == InitOf("part_000")

InitBoth == InitOf("main.go") \/ InitOf("part_000")

Next ==
    \/ \E index \in 0..(RoomSize - 1) : SelectCard(index)
    \/ \E barehanded \in BOOLEAN : ChooseFightStyle(barehanded)
    \/ AvoidRoom
    \/ RedealRoom
    \/ Restart

\* the fight-choice version
Spec == Init /\ [][Next]_vars

\* both versions
SpecBoth == InitBoth /\ [][Next]_vars

-----------------------------------------------------------------------------
(* Properties *)

Max(a, b) == IF a > b THEN a ELSE b
Min(a, b) == IF a < b THEN a ELSE b

Last(s) == s[Len(s)]

\* a fight decision is pending on a card that is still in the room
FightPending ==
    choosingFight /\ selectedCard >= 0 /\ selectedCard < Len(room)

\* some key other than "r" is handled in this step
OtherThanRestart ==
    \/ \E index \in 0..(RoomSize - 1) : SelectCard(index)
    \/ \E barehanded \in BOOLEAN : ChooseFightStyle(barehanded)
    \/ AvoidRoom
    \/ RedealRoom

\* what C3 and C4 say a rejected key leaves alone
sessionVars ==
    <<health, dungeon, room, discardPile, equippedWeapon, weaponLimit,
      cardsChosen, choosingFight, avoidedLastRoom, potionUsedThisTurn>>

\* C1: resolving the fight choice for a pending monster of rank r takes
\* exactly r from health and leaves weaponLimit and the weapon alone when
\* barehanded was chosen, no weapon is equipped or r > weaponLimit; otherwise
\* it takes exactly max(0, r - weapon rank) and sets weaponLimit and the
\* weapon's MonsterValue to r.  Health is not clamped from below.
C1_FightOutcome ==
    [][\A barehanded \in BOOLEAN :
         (/\ ChooseFightStyle(barehanded)
          /\ FightPending
          /\ room[selectedCard + 1].Type = "Monster")
         => LET r == room[selectedCard + 1].Value
            IN IF barehanded \/ equippedWeapon = NoCard \/ r > weaponLimit
               THEN /\ health' = health - r
                    /\ weaponLimit' = weaponLimit
                    /\ equippedWeapon' = equippedWeapon
               ELSE /\ health' = health - Max(0, r - equippedWeapon.Value)
                    /\ weaponLimit' = r
                    /\ equippedWeapon' =
                           [equippedWeapon EXCEPT !.MonsterValue = r]]_vars

\* a weapon-assisted fight has driven health below 0
C1_Witness ==
    /\ health < 0
    /\ ~fightingBarehanded
    /\ equippedWeapon # NoCard
    /\ equippedWeapon.MonsterValue = weaponLimit
    /\ discardPile # <<>>
    /\ Last(discardPile).Type = "Monster"
    /\ Last(discardPile).Value = weaponLimit

\* C2: health <= 20 in every reachable state of both programs.
C2_HealthAtMost20 == health <= MaxHealth

\* main.go has drunk a potion after a fight and stands at 20
C2_Witness ==
    /\ program = "main.go"
    /\ health = MaxHealth
    /\ Len(discardPile) >= 2
    /\ Last(discardPile).Type = "Potion"
    /\ \E i \in 1..Len(discardPile) : discardPile[i].Type = "Monster"

\* C3: once health <= 0 every key but "r" leaves the session unchanged.
C3_TerminalAfterDeath ==
    [][(health <= 0 /\ OtherThanRestart) => UNCHANGED sessionVars]_vars

\* C4: while a fight decision is pending, SelectCard(i) and AvoidRoom leave
\* the session unchanged.
C4_PendingFightGates ==
    [][(/\ choosingFight
        /\ \/ \E index \in 0..(RoomSize - 1) : SelectCard(index)
           \/ AvoidRoom)
       => UNCHANGED <<sessionVars, selectedCard>>]_vars

\* the potion at room index `index` is selected and selectCard accepts it
PotionSelected(index) ==
    /\ SelectCard(index)
    /\ index < Len(room)
    /\ cardsChosen < CardsPerRoom
    /\ room[index + 1].Type = "Potion"

\* C5: of two potions selected in one room only the first changes health,
\* to min(20, health + rank); the second goes to the discard pile and leaves
\* health as it is.  "In one room": potionUsedThisTurn, set by the first
\* potion, is cleared only by a step that starts a new room (dealRoom resets
\* cardsChosen to 0).
C5_OnePotionPerTurn ==
    [][/\ \A index \in 0..(RoomSize - 1) :
            PotionSelected(index)
            => IF potionUsedThisTurn
               THEN /\ health' = health
                    /\ discardPile' = Append(discardPile, room[index + 1])
                    /\ potionUsedThisTurn'
               ELSE /\ health' = Min(MaxHealth, health + room[index + 1].Value)
                    /\ discardPile' = Append(discardPile, room[index + 1])
                    /\ potionUsedThisTurn' \/ cardsChosen' = 0
       /\ (potionUsedThisTurn /\ ~potionUsedThisTurn') => cardsChosen' = 0
      ]_vars

\* below 20, a second potion of the room has just been discarded unused
C5_Witness ==
    /\ health < MaxHealth
    /\ health > 0
    /\ potionUsedThisTurn
    /\ cardsChosen > 0
    /\ Len(discardPile) >= 2
    /\ Last(discardPile).Type = "Potion"
    /\ discardPile[Len(discardPile) - 1].Type = "Potion"

\* C6: after an accepted AvoidRoom (avoidedLastRoom is set), a RedealRoom,
\* which resolves no card, followed by a further AvoidRoom: that AvoidRoom is
\* rejected, it changes nothing.
C6_NoTwoAvoidsInARow ==
    (avoidedLastRoom /\ program = "part_000")
    => LET redealt == Update(M, "d")
       IN Update(redealt, "a") = redealt

\* C7: AvoidRoom pressed twice in a row: in the state the first one leaves,
\* the second one changes nothing.
C7_SecondAvoidRejected ==
    [][AvoidRoom => (Update(M, "a") = M)']_vars

\* the first room went to the back of the dungeon and a new one was dealt
C7_Witness ==
    /\ avoidedLastRoom
    /\ discardPile = <<>>
    /\ steps = 1
    /\ Len(room) = RoomSize
    /\ \E deck \in Shuffles :
           /\ SubSeq(dungeon, Len(dungeon) - RoomSize + 1, Len(dungeon))
                  = SubSeq(deck, 1, RoomSize)
           /\ room = SubSeq(deck, RoomSize + 1, RoomSize + RoomSize)

\* every card of the deck is in the dungeon, the room, the discard pile or
\* the weapon slot
NoCardMissing ==
    Len(dungeon) + Len(room) + Len(discardPile)
        + (IF equippedWeapon = NoCard THEN 0 ELSE 1) = Len(createDeck)

\* C8: whenever the third card of a room is resolved, whatever its kind, the
\* same step refills the room (to 4 cards, or until the dungeon is empty) and
\* resets cardsChosen to 0.  Two cards of the room are resolved, two are left
\* and no card has gone missing; the step resolves one of the two.
C8_ThirdResolutionRefills ==
    [][(/\ Len(room) = 2
        /\ NoCardMissing
        /\ \/ /\ ~choosingFight
              /\ cardsChosen = 2
              /\ \E index \in 0..1 :
                     SelectCard(index) /\ room[index + 1].Type # "Monster"
           \/ /\ FightPending
              /\ cardsChosen = 3
              /\ \E barehanded \in BOOLEAN : ChooseFightStyle(barehanded))
       => /\ cardsChosen' = 0
          /\ Len(room') = Min(RoomSize, 1 + Len(dungeon))]_vars

\* C9: when the third resolution of a room triggers the refill, the card of
\* the room that was not resolved is in the room after the refill.
C9_LeftoverCardKept ==
    [][\A index \in 0..1 :
         (/\ Len(room) = 2
          /\ Len(dungeon') < Len(dungeon)
          /\ \/ ~choosingFight /\ SelectCard(index)
             \/ /\ FightPending
                /\ selectedCard = index
                /\ \E barehanded \in BOOLEAN : ChooseFightStyle(barehanded))
         => InSeq(room[2 - index], room')]_vars

\* C10: weaponLimit never increases within a session: no key but an accepted
\* "r" (a new session) raises it, and a weapon-assisted fight against a
\* monster of rank r leaves it at r <= its value before.
C10_WeaponLimitMonotone ==
    [][\/ health <= 0 /\ Restart
       \/ /\ weaponLimit' <= weaponLimit
          /\ (equippedWeapon'.MonsterValue # equippedWeapon.MonsterValue
              /\ equippedWeapon'.MonsterValue # 0)
             => /\ weaponLimit' = equippedWeapon'.MonsterValue
                /\ equippedWeapon'.MonsterValue <= weaponLimit]_vars

\* the weapon was asked for against a monster above the ceiling its earlier
\* kill left, and the ceiling stayed
C10_Witness ==
    /\ equippedWeapon # NoCard
    /\ equippedWeapon.MonsterValue > 0
    /\ weaponLimit = equippedWeapon.MonsterValue
    /\ weaponLimit < StartWeaponLimit
    /\ ~fightingBarehanded
    /\ ~choosingFight
    /\ NoCardMissing
    /\ Len(discardPile) >= 2
    /\ Last(discardPile).Type = "Monster"
    /\ Last(discardPile).Value > weaponLimit
    /\ discardPile[Len(discardPile) - 1].Type = "Monster"
    /\ discardPile[Len(discardPile) - 1].Value = weaponLimit

RECURSIVE SumOfRanks(_)
\* the sum of the ranks of a set of cards (the cards of the deck are distinct)
SumOfRanks(cards) ==
    IF cards = {} THEN 0
    ELSE LET c == CHOOSE x \in cards : TRUE
         IN c.Value + SumOfRanks(cards \ {c})

\* C11: the score is health minus the ranks of all Monster cards left in the
\* dungeon (room cards not counted) when health <= 0; otherwise it is health,
\* plus the rank of the last discarded card exactly when health = 20 and that
\* card is a Potion.
C11_Score ==
    calculateScore(M) =
        IF health <= 0
        THEN health - SumOfRanks({c \in SeqRange(dungeon) : c.Type = "Monster"})
        ELSE health + (IF /\ health = MaxHealth
                          /\ discardPile # <<>>
                          /\ Last(discardPile).Type = "Potion"
                       THEN Last(discardPile).Value ELSE 0)

\* at 20 after a fight, the potion drunk last earns its rank as a bonus
C11_Witness ==
    /\ health = MaxHealth
    /\ Len(discardPile) >= 2
    /\ Last(discardPile).Type = "Potion"
    /\ \E i \in 1..Len(discardPile) : discardPile[i].Type = "Monster"
    /\ calculateScore(M) = MaxHealth + Last(discardPile).Value

\* C12: a rejected action changes no field of the model: SelectCard with an
\* index outside the room or with cardsChosen = 3, and ChooseFightStyle when
\* no fight is pending.
C12_RejectedActionsChangeNothing ==
    /\ \A index \in 0..(RoomSize - 1) :
           (index >= Len(room) \/ cardsChosen = CardsPerRoom)
           => Update(M, SelectKeys[index + 1]) = M
    /\ \A index \in {-1, RoomSize} : selectCard(M, index) = M
    /\ ~choosingFight => Update(M, "b") = M /\ Update(M, "w") = M

\* three cards are chosen, a card is left in the room and marked selected,
\* no fight is pending: every selection and fight style is rejected here
C12_Witness ==
    /\ cardsChosen = CardsPerRoom
    /\ ~choosingFight
    /\ Len(room) > 0
    /\ selectedCard >= 0
    /\ selectedCard < Len(room)

RECURSIVE IndexOf(_, _)
\* the Go index of card in the slice r, -1 when it is not there
IndexOf(r, card) ==
    IF r = <<>> THEN -1
    ELSE IF Last(r) = card /\ ~InSeq(card, SubSeq(r, 1, Len(r) - 1))
         THEN Len(r) - 1
         ELSE IndexOf(SubSeq(r, 1, Len(r) - 1), card)

\* the player selects the given card of the room
SelectTheCard(m, card) == selectCard(m, IndexOf(m.room, card))

\* the scenario's start: health 20, no weapon, ceiling 14 and the room
\* [Spade 10, Diamond 5, Heart 8, Club 2], nothing chosen yet
ScenarioStart ==
    /\ health = 20
    /\ equippedWeapon = NoCard
    /\ weaponLimit = 14
    /\ room = <<Spade(10), Diamond(5), Heart(8), Club(2)>>
    /\ cardsChosen = 0
    /\ ~choosingFight
    /\ ~potionUsedThisTurn

\* C13: from the scenario's start, select Diamond 5; select Spade 10 and
\* choose weapon; select Heart 8; select Club 2 and choose weapon.  In turn:
\* ceiling 14 and MonsterValue 0 after the equip; health 15, ceiling 10 and
\* MonsterValue 10 after the first fight; health 20 after the potion; health
\* 20 and ceiling 2 after the fight with Club 2; the score is then 20 and the
\* last discarded card a Monster.
C13_Scenario ==
    ScenarioStart
    => LET equipped == SelectTheCard(M, Diamond(5))
           fought == chooseFight(SelectTheCard(equipped, Spade(10)), FALSE)
           drunk == SelectTheCard(fought, Heart(8))
           done == chooseFight(SelectTheCard(drunk, Club(2)), FALSE)
       IN /\ equipped.weaponLimit = 14
          /\ equipped.equippedWeapon.MonsterValue = 0
          /\ fought.health = 15
          /\ fought.weaponLimit = 10
          /\ fought.equippedWeapon.MonsterValue = 10
          /\ drunk.health = 20
          /\ done.health = 20
          /\ done.weaponLimit = 2
          /\ calculateScore(done) = 20
          /\ Last(done.discardPile).Type = "Monster"

\* C14: a fight decision is pending only while selectedCard is an index of
\* the room and the card there is a Monster (the one selected and not yet
\* resolved); choosingFight does not survive a refill, a redeal or an avoid.
C14_PendingFightHasItsMonster ==
    choosingFight
    => /\ selectedCard >= 0
       /\ selectedCard < Len(room)
       /\ room[selectedCard + 1].Type = "Monster"

\* the card as createDeck made it (a weapon's MonsterValue is bookkeeping)
DeckCard(card) == [card EXCEPT !.MonsterValue = 0]

\* the cards of dungeon, room, discard pile and weapon slot
CardsInPlay ==
    dungeon \o room \o discardPile
        \o (IF equippedWeapon = NoCard THEN <<>> ELSE <<equippedWeapon>>)

\* C15: dungeon, room, discard pile and weapon slot together hold exactly the
\* 44 cards of the deck, each card in exactly one place.
C15_CardConservation ==
    /\ Len(CardsInPlay) = Len(createDeck)
    /\ {DeckCard(c) : c \in SeqRange(CardsInPlay)} = SeqRange(createDeck)

\* C16: health decreases only in the step that resolves a fight choice, and
\* the card charged in that step is a Monster.
C16_OnlyMonstersHurt ==
    [][health' < health
       => /\ \E barehanded \in BOOLEAN : ChooseFightStyle(barehanded)
          /\ FightPending
          /\ room[selectedCard + 1].Type = "Monster"
          /\ discardPile' = Append(discardPile, room[selectedCard + 1])]_vars

\* C17: selecting a card of the room never takes a slice of the room out of
\* range.
C17_NoFaultOnValidSelection == ~panicked

C19_AvoidRoomEffect ==
    [][(AvoidRoom /\ ~avoidedLastRoom)
       => LET extended == dungeon \o room
              n == Min(RoomSize, Len(extended))
          IN /\ room' = SubSeq(extended, 1, n)
             /\ dungeon' = SubSeq(extended, n + 1, Len(extended))
             /\ avoidedLastRoom'
             /\ UNCHANGED <<health, discardPile, equippedWeapon,
                            weaponLimit>>]_vars

\* a room with one card resolved was avoided: its three cards are the last
\* of the dungeon, the next four cards of the deck are the room
C19_Witness ==
    /\ avoidedLastRoom
    /\ NoCardMissing
    /\ Len(discardPile) + (IF equippedWeapon = NoCard THEN 0 ELSE 1) = 1
    /\ \E deck \in Shuffles :
           /\ room = SubSeq(deck, RoomSize + 1, RoomSize + RoomSize)
           /\ \A i \in (Len(dungeon) - RoomSize + 2)..Len(dungeon) :
                  InSeq(dungeon[i], SubSeq(deck, 1, RoomSize))
           /\ SubSeq(dungeon, 1, Len(dungeon) - RoomSize + 1)
                  = SubSeq(deck, RoomSize + RoomSize + 1, Len(deck))

\* C20: selecting a Weapon while no fight choice is pending equips it: the
\* weapon equipped before, if any, is appended to the discard pile, the new
\* weapon's MonsterValue is 0, the card leaves the room, health and
\* weaponLimit are unchanged (a lowered ceiling carries over).
C20_EquipWeapon ==
    [][\A index \in 0..(RoomSize - 1) :
         (/\ SelectCard(index)
          /\ ~choosingFight
          /\ index < Len(room)
          /\ cardsChosen < CardsPerRoom
          /\ room[index + 1].Type = "Weapon")
         => /\ equippedWeapon' = [room[index + 1] EXCEPT !.MonsterValue = 0]
            /\ discardPile' = IF equippedWeapon = NoCard THEN discardPile
                              ELSE Append(discardPile, equippedWeapon)
            /\ room' = SubSeq(room, 1, index)
                           \o SubSeq(room, index + 2, Len(room))
            /\ health' = health
            /\ weaponLimit' = weaponLimit]_vars

\* a weapon that had lowered the ceiling was replaced: it is the last
\* discard, the new weapon has slain nothing and the ceiling is still low
C20_Witness ==
    /\ equippedWeapon # NoCard
    /\ equippedWeapon.MonsterValue = 0
    /\ weaponLimit < StartWeaponLimit
    /\ discardPile # <<>>
    /\ Last(discardPile).Type = "Weapon"
    /\ Last(discardPile).MonsterValue = weaponLimit
    /\ \E i \in 1..Len(discardPile) :
           /\ discardPile[i].Type = "Monster"
           /\ discardPile[i].Value = weaponLimit

=============================================================================
